---------------------------- MODULE Spec2Model ----------------------------
(***************************************************************************)
(* A model of acl_management.py: the overlap primitive check_overlap, the *)
(* validator validate_acl_rules, and the applier configure_acls /         *)
(* backup_current_config / configure_acls_on_multiple_devices.            *)
(*                                                                         *)
(* A rule is a Python dict.  It is modelled as a record whose field keys  *)
(* is the set of optional keys the dict holds; reading a key that is not  *)
(* in keys is a KeyError.  source and destination are always present.     *)
(* An address text is modelled by what ipaddress makes of it:             *)
(*   kind "cidr": "<addr>/<len>"  (holds a '/')                           *)
(*   kind "host": "<addr>"        (no '/')                                *)
(*   kind "junk": text that is no address; slash says whether it has '/'  *)
(* over an address space of AddrBits bits.                                 *)
(***************************************************************************)
EXTENDS Integers, Sequences, FiniteSets, TLC

\* ----------------------------------------------------------------- bounds
AddrBits == 2
MaxRules == 2
MaxApplyRules == 2
NumDevices == 2

\* ------------------------------------------------------------------ data
USER_ROLES == [admin |-> "read-write", user |-> "read-only"]

Roles == {USER_ROLES[u] : u \in DOMAIN USER_ROLES}

Addresses == 0 .. (2^AddrBits - 1)

Cidr(a, l) == [kind |-> "cidr", addr |-> a, len |-> l, slash |-> TRUE]

Host(a) == [kind |-> "host", addr |-> a, len |-> 0, slash |-> FALSE]

Junk(sl) == [kind |-> "junk", addr |-> 0, len |-> 0, slash |-> sl]

\* Every address text of the model; a prefix length of AddrBits + 1 is the
\* out-of-range prefix ("10.0.0.0/33").
AddressTexts ==
    {Cidr(a, l) : a \in Addresses, l \in 0 .. (AddrBits + 1)}
        \cup {Host(a) : a \in Addresses}
        \cup {Junk(sl) : sl \in BOOLEAN}

\* '/' in text
HasSlash(text) == text.slash

NoValue == [ok |-> FALSE, net |-> FALSE, lo |-> 0, hi |-> 0]

\* ipaddress.ip_network(text, strict=False): the host bits are masked off;
\* text that is no network raises ValueError (ok = FALSE).
ip_network(text) ==
    IF text.kind = "cidr" /\ text.len <= AddrBits
    THEN LET size == 2^(AddrBits - text.len)
             base == text.addr - (text.addr % size)
         IN  [ok |-> TRUE, net |-> TRUE, lo |-> base, hi |-> base + size - 1]
    ELSE NoValue

\* ipaddress.ip_address(text): an address object, or ValueError.
ip_address(text) ==
    IF text.kind = "host"
    THEN [ok |-> TRUE, net |-> FALSE, lo |-> text.addr, hi |-> text.addr]
    ELSE NoValue

\* addr in network
Contains(network, a) == network.lo <= a /\ a <= network.hi

\* _BaseNetwork.overlaps(other), both networks.
overlaps(net1, net2) ==
    \/ Contains(net2, net1.lo)
    \/ Contains(net2, net1.hi)
    \/ Contains(net1, net2.lo)
    \/ Contains(net1, net2.hi)

\* The outcome of a call: the exception that left it ("none": it returned),
\* the value returned, and the findings it logged.
Returned(v) == [exc |-> "none", val |-> v, log |-> << >>]

Raised(e) == [exc |-> e, val |-> FALSE, log |-> << >>]

\* check_overlap(source1, dest1, source2, dest2): the value returned, or the
\* exception that leaves the function.  ValueError is caught (and logged, which
\* is no finding) and gives False;
\* an address object has no overlaps method (AttributeError), and a network
\* tests "network_address in other" on an address object (TypeError).
check_overlap(source1, dest1, source2, dest2) ==
    LET net1 == IF HasSlash(source1) THEN ip_network(source1) ELSE ip_address(source1)
        net2 == IF HasSlash(source2) THEN ip_network(source2) ELSE ip_address(source2)
    IN  IF ~net1.ok THEN Returned(FALSE)
        ELSE IF ~net2.ok THEN Returned(FALSE)
        ELSE IF ~net1.net THEN Raised("AttributeError")
        ELSE IF ~net2.net THEN Raised("TypeError")
        ELSE Returned(overlaps(net1, net2))

\* ------------------------------------------------------------- validator
RequiredKeys == {"acl_number", "action", "protocol"}

Finding(kind, a, b) == [kind |-> kind, a |-> a, b |-> b]

Flag(st, finding) == [st EXCEPT !.valid = FALSE, !.log = Append(@, finding)]

\* Lines 76-79: the locals of validate_acl_rules.  Rules are named by their
\* index in the rule list.
StartState ==
    [exc |-> "none", valid |-> TRUE, seen_acls |-> {}, permit_rules |-> << >>,
     deny_rules |-> << >>, log |-> << >>]

\* Lines 82-101: the body of the first loop, for rule number k.
ScanRule(rule, k, role, st) ==
    IF ~(RequiredKeys \subseteq rule.keys)
    THEN Flag(st, Finding("missing-field", k, 0))
    ELSE IF role = "read-only" /\ rule.action = "deny"
    THEN Flag(st, Finding("permission-denied", k, 0))
    ELSE LET st1 == IF rule.acl_number \in st.seen_acls
                    THEN Flag(st, Finding("duplicate-acl", k, 0))
                    ELSE [st EXCEPT !.seen_acls = @ \cup {rule.acl_number}]
         IN  IF rule.action = "permit"
             THEN [st1 EXCEPT !.permit_rules = Append(@, k)]
             ELSE IF rule.action = "deny"
             THEN [st1 EXCEPT !.deny_rules = Append(@, k)]
             ELSE st1

RECURSIVE ScanRules(_, _, _, _)
\* Lines 81-101: for rule in rules.
ScanRules(rs, role, k, st) ==
    IF k > Len(rs) THEN st
    ELSE ScanRules(rs, role, k + 1, ScanRule(rs[k], k, role, st))

\* Lines 106-107: the condition of the permit/deny test.  Every rule of the
\* two buckets holds 'protocol'.
ConflictTest(permit, deny) ==
    IF permit.protocol = deny.protocol
    THEN check_overlap(permit.source, permit.destination,
                       deny.source, deny.destination)
    ELSE Returned(FALSE)

RECURSIVE ConflictScan(_, _, _, _)
\* Lines 104-109: for permit in permit_rules: for deny in deny_rules.  An
\* exception of the test leaves the function.
ConflictScan(rs, st, p, d) ==
    IF p > Len(st.permit_rules) THEN st
    ELSE IF d > Len(st.deny_rules) THEN ConflictScan(rs, st, p + 1, 1)
    ELSE LET pi == st.permit_rules[p]
             di == st.deny_rules[d]
             r == ConflictTest(rs[pi], rs[di])
         IN  IF r.exc # "none" THEN [st EXCEPT !.exc = r.exc]
             ELSE ConflictScan(rs,
                               IF r.val
                               THEN Flag(st, Finding("permit-deny-conflict", pi, di))
                               ELSE st,
                               p, d + 1)

\* Lines 114-115: the condition of the pairwise test.  rules[i]['protocol']
\* and rules[j]['protocol'] are read without a check: KeyError when absent.
OverlapTest(ri, rj) ==
    IF "protocol" \notin ri.keys \/ "protocol" \notin rj.keys
    THEN Raised("KeyError")
    ELSE IF ri.protocol = rj.protocol
    THEN check_overlap(ri.source, ri.destination, rj.source, rj.destination)
    ELSE Returned(FALSE)

RECURSIVE OverlapScan(_, _, _, _)
\* Lines 112-117: for i in range(len(rules)): for j in range(i + 1, len(rules)).
OverlapScan(rs, st, i, j) ==
    IF i > Len(rs) THEN st
    ELSE IF j > Len(rs) THEN OverlapScan(rs, st, i + 1, i + 2)
    ELSE LET r == OverlapTest(rs[i], rs[j])
         IN  IF r.exc # "none" THEN [st EXCEPT !.exc = r.exc]
             ELSE OverlapScan(rs,
                              IF r.val THEN Flag(st, Finding("overlap", i, j)) ELSE st,
                              i, j + 1)

\* validate_acl_rules(rules) under the global current_role: the verdict
\* returned (val), or the exception that leaves it, and the findings logged
\* up to there.
validate_acl_rules(rs, role) ==
    LET st1 == ScanRules(rs, role, 1, StartState)
        st2 == ConflictScan(rs, st1, 1, 1)
        st3 == IF st2.exc = "none" THEN OverlapScan(rs, st2, 1, 2) ELSE st2
    IN  [exc |-> st3.exc,
         val |-> IF st3.exc = "none" THEN st3.valid ELSE FALSE,
         log |-> st3.log]

\* --------------------------------------------------------------- inputs
Rule(keys, n, action, protocol, source, destination, port) ==
    [keys |-> keys, acl_number |-> n, action |-> action, protocol |-> protocol,
     source |-> source, destination |-> destination, port |-> port]

HalfLen == AddrBits - 1

LowHalf == Cidr(0, HalfLen)

HighHalf == Cidr(2^HalfLen, HalfLen)

\* The sources of the validator's rules: two disjoint ranges, a one-address
\* range inside the first, a single address inside the first, and text that
\* is no address.
RuleSources == {LowHalf, HighHalf, Cidr(1, AddrBits), Host(1), Junk(FALSE)}

RuleDests == {LowHalf, HighHalf}

\* The rules validate_acl_rules is called with: every subset of the required
\* keys, an absent key holding no value (0 or "").
ValidatorRules ==
    {Rule(keys, n, action, protocol, source, destination, 0) :
        keys \in SUBSET RequiredKeys,
        n \in {0, 1, 2}, action \in {"", "permit", "deny"},
        protocol \in {"", "tcp", "udp"},
        source \in RuleSources, destination \in RuleDests}

WellFormed(rule) ==
    /\ ("acl_number" \in rule.keys) = (rule.acl_number # 0)
    /\ ("action" \in rule.keys) = (rule.action # "")
    /\ ("protocol" \in rule.keys) = (rule.protocol # "")
    /\ ("port" \in rule.keys) = (rule.port # 0)

SeqsUpTo(S, n) == UNION {[1 .. m -> S] : m \in 0 .. n}

RuleSets == SeqsUpTo({rule \in ValidatorRules : WellFormed(rule)}, MaxRules)

\* The rules the applier is run with: a permit and a deny rule on disjoint
\* ranges, a deny rule that duplicates and contradicts the permit rule, a
\* rule with a port and a single-address source, and a rule without protocol.
ApplyRules ==
    {Rule(RequiredKeys, 1, "permit", "tcp", LowHalf, HighHalf, 0),
     Rule(RequiredKeys, 2, "deny", "tcp", HighHalf, LowHalf, 0),
     Rule(RequiredKeys, 1, "deny", "tcp", Cidr(1, AddrBits), HighHalf, 0),
     Rule(RequiredKeys \cup {"port"}, 2, "permit", "udp", Host(1), LowHalf, 80),
     Rule({"acl_number", "action"}, 2, "permit", "", LowHalf, LowHalf, 0)}

\* The rule lists the applier is run with hold at least one rule.
ApplyRuleSets == SeqsUpTo(ApplyRules, MaxApplyRules) \ {<< >>}

Devices == 1 .. NumDevices

\* ---------------------------------------------------------------- state
VARIABLES
    call,           \* the entry point that is run
    args,           \* check_overlap's arguments
    rules,          \* the rule list
    current_role,   \* the global current_role
    dry_run,        \* configure_acls' dry_run flag
    pc,             \* where the run is
    ret,            \* the outcome of the last check_overlap / validate_acl_rules
    device,         \* the index of the device configure_acls is run on
    verdict,        \* per device, the outcome of the validation of its call
    commands,       \* the last command list built
    events,         \* <<device, what>>: what was done with each device
    open            \* <<device, "backup" | "push">>: the sessions open

vars == <<call, args, rules, current_role, dry_run, pc, ret, device, verdict,
          commands, events, open>>

NoRet == [exc |-> "pending", val |-> FALSE, log |-> << >>]

Idle ==
    /\ dry_run = FALSE
    /\ device = 0
    /\ verdict = [d \in Devices |-> "none"]
    /\ commands = << >>
    /\ events = {}
    /\ open = {}

\* ------------------------------------------------ the pure entry points
InitPure ==
    /\ pc = "call"
    /\ ret = NoRet
    /\ Idle
    /\ \/ /\ call = "check_overlap"
          /\ args \in AddressTexts \X RuleDests \X AddressTexts \X RuleDests
          /\ rules = << >>
          /\ current_role = "read-write"
       \/ /\ call = "validate_acl_rules"
          /\ args = << >>
          /\ current_role \in Roles
          /\ rules \in RuleSets

CallCheckOverlap ==
    /\ pc = "call"
    /\ call = "check_overlap"
    /\ ret' = check_overlap(args[1], args[2], args[3], args[4])
    /\ pc' = "done"
    /\ UNCHANGED <<call, args, rules, current_role, dry_run, device, verdict,
                   commands, events, open>>

CallValidate ==
    /\ pc = "call"
    /\ call = "validate_acl_rules"
    /\ ret' = validate_acl_rules(rules, current_role)
    /\ pc' = "done"
    /\ UNCHANGED <<call, args, rules, current_role, dry_run, device, verdict,
                   commands, events, open>>

Next == CallCheckOverlap \/ CallValidate

Spec == InitPure /\ [][Next]_vars

\* ------------------------------------------------------------ the applier
\* build_acl_command(rule): the command text, as the values it is made of.
build_acl_command(rule) ==
    [acl_number |-> rule.acl_number, action |-> rule.action,
     protocol |-> rule.protocol, host |-> "port" \in rule.keys,
     source |-> rule.source, destination |-> rule.destination,
     port |-> IF "port" \in rule.keys THEN rule.port ELSE 0]

\* Line 151 and line 161: [build_acl_command(rule) for rule in rules].
BuildCommands(rs) == [k \in DOMAIN rs |-> build_acl_command(rs[k])]

\* The gate of line 146 left out: a failed validation is not acted on.
RefusesNothing(report) == FALSE

\* Line 146: "if not validate_acl_rules(rules)": the call is given up.
Refuses(report) == ~report.val

Verdict(report) ==
    IF report.exc # "none" THEN "raised" ELSE IF report.val THEN "true" ELSE "false"

\* configure_acls_on_multiple_devices(devices, rules, dry_run), on the
\* devices 1 .. NumDevices, under the role authenticate_user has set.
InitApply ==
    /\ call = "configure_acls_on_multiple_devices"
    /\ args = << >>
    /\ current_role \in Roles
    /\ rules \in ApplyRuleSets
    /\ dry_run \in BOOLEAN
    /\ pc = "configure"
    /\ ret = NoRet
    /\ device = 1
    /\ verdict = [d \in Devices |-> "none"]
    /\ commands = << >>
    /\ events = {}
    /\ open = {}

\* configure_acls returns: the loop of line 173 goes on to the next device.
ReturnFromConfigure ==
    /\ device' = device + 1
    /\ pc' = IF device + 1 > NumDevices THEN "done" ELSE "configure"

Did(what) == events' = events \cup {<<device, what>>}

\* Lines 146-153: the validation, the refusal and the dry run.  An exception
\* of validate_acl_rules is caught nowhere: it ends the program.
Configure ==
    /\ pc = "configure"
    /\ LET report == validate_acl_rules(rules, current_role)
       IN  /\ ret' = report
           /\ verdict' = [verdict EXCEPT ![device] = Verdict(report)]
           /\ IF report.exc # "none"
              THEN /\ pc' = "crashed"
                   /\ UNCHANGED <<device, commands, events>>
              ELSE IF Refuses(report)
              THEN /\ ReturnFromConfigure
                   /\ UNCHANGED <<commands, events>>
              ELSE IF dry_run
              THEN /\ commands' = BuildCommands(rules)
                   /\ Did("render")
                   /\ ReturnFromConfigure
              ELSE /\ pc' = "backup_connect"
                   /\ UNCHANGED <<device, commands, events>>
    /\ UNCHANGED <<call, args, rules, current_role, dry_run, open>>

\* Line 136: the except clause of backup_current_config logs and returns;
\* configure_acls goes on at line 157.
BackupFailed ==
    /\ pc' = "push_connect"
    /\ UNCHANGED <<device>>

\* Line 124: connection = ConnectHandler(**device): the session opens, or
\* the attempt fails.
BackupConnect ==
    /\ pc = "backup_connect"
    /\ \/ /\ open' = open \cup {<<device, "backup">>}
          /\ Did("connect")
          /\ pc' = "backup_enable"
          /\ UNCHANGED device
       \/ /\ BackupFailed
          /\ Did("connect refused")
          /\ UNCHANGED open
    /\ UNCHANGED <<call, args, rules, current_role, dry_run, ret, verdict, commands>>

\* Line 125: connection.enable().
BackupEnable ==
    /\ pc = "backup_enable"
    /\ \/ /\ pc' = "backup_fetch"
          /\ UNCHANGED device
       \/ BackupFailed
    /\ UNCHANGED <<call, args, rules, current_role, dry_run, ret, verdict, commands,
                   events, open>>

\* Line 128: connection.send_command("show running-config | include access-list").
BackupFetch ==
    /\ pc = "backup_fetch"
    /\ \/ /\ Did("fetch")
          /\ pc' = "backup_write"
          /\ UNCHANGED device
       \/ /\ BackupFailed
          /\ UNCHANGED events
    /\ UNCHANGED <<call, args, rules, current_role, dry_run, ret, verdict, commands,
                   open>>

\* Lines 129-132: the backup file is opened and written.
BackupWrite ==
    /\ pc = "backup_write"
    /\ \/ /\ Did("write")
          /\ pc' = "backup_disconnect"
          /\ UNCHANGED device
       \/ /\ BackupFailed
          /\ UNCHANGED events
    /\ UNCHANGED <<call, args, rules, current_role, dry_run, ret, verdict, commands,
                   open>>

\* Lines 134-135: connection.disconnect(); backup_current_config returns.
BackupDisconnect ==
    /\ pc = "backup_disconnect"
    /\ open' = open \ {<<device, "backup">>}
    /\ pc' = "push_connect"
    /\ UNCHANGED <<call, args, rules, current_role, dry_run, ret, device, verdict,
                   commands, events>>

\* Line 158: connection = ConnectHandler(**device); line 169 on an exception.
PushConnect ==
    /\ pc = "push_connect"
    /\ \/ /\ open' = open \cup {<<device, "push">>}
          /\ Did("connect")
          /\ pc' = "push_enable"
          /\ UNCHANGED device
       \/ /\ ReturnFromConfigure
          /\ Did("connect refused")
          /\ UNCHANGED open
    /\ UNCHANGED <<call, args, rules, current_role, dry_run, ret, verdict, commands>>

\* Line 159: connection.enable().
PushEnable ==
    /\ pc = "push_enable"
    /\ \/ /\ pc' = "push_send"
          /\ UNCHANGED device
       \/ ReturnFromConfigure
    /\ UNCHANGED <<call, args, rules, current_role, dry_run, ret, verdict, commands,
                   events, open>>

\* Lines 161-165: the commands are built and sent.
PushSend ==
    /\ pc = "push_send"
    /\ commands' = BuildCommands(rules)
    /\ \/ /\ Did("send")
          /\ pc' = "push_disconnect"
          /\ UNCHANGED device
       \/ /\ ReturnFromConfigure
          /\ UNCHANGED events
    /\ UNCHANGED <<call, args, rules, current_role, dry_run, ret, verdict, open>>

\* Line 167: connection.disconnect(); configure_acls returns.
PushDisconnect ==
    /\ pc = "push_disconnect"
    /\ open' = open \ {<<device, "push">>}
    /\ ReturnFromConfigure
    /\ UNCHANGED <<call, args, rules, current_role, dry_run, ret, verdict, commands,
                   events>>

NextApply ==
    \/ Configure
    \/ BackupConnect \/ BackupEnable \/ BackupFetch \/ BackupWrite \/ BackupDisconnect
    \/ PushConnect \/ PushEnable \/ PushSend \/ PushDisconnect

SpecApply == InitApply /\ [][NextApply]_vars

\* --------------------------------------------------- claims on the applier
Contacted(d) == {e \in events : e[1] = d} # {} \/ {o \in open : o[1] = d} # {}

\* C1: a call of configure_acls whose validation reports failure contacts no
\* device: nothing is connected, fetched, written, sent or rendered for it.
C1_Gating ==
    \A d \in Devices : verdict[d] = "false" => ~Contacted(d)

\* A run that is not a dry run, refused on every device.
C1_Witness ==
    /\ pc = "done"
    /\ ~dry_run
    /\ \A d \in Devices : verdict[d] = "false"

\* C8: commands are sent to a device only after its backup was fetched and
\* written in the same call.
C8_BackupBeforePush ==
    \A d \in Devices :
        <<d, "send">> \in events
            => (<<d, "fetch">> \in events /\ <<d, "write">> \in events)

\* C10: every session backup_current_config opened is closed when it
\* returns, and every session configure_acls opened is closed when it
\* returns, so none is open between devices or at the end.
C10_SessionsClosed ==
    /\ pc \in {"push_connect", "configure", "done"}
           => {o \in open : o[2] = "backup"} = {}
    /\ pc \in {"configure", "done"} => open = {}

\* ------------------------------------------- claims on the pure functions
Done(entry) == pc = "done" /\ call = entry

Range(f) == {f[x] : x \in DOMAIN f}

\* The addresses an address text stands for: those of the range, the one
\* address, or none for text that is no address.
AddrSet(text) ==
    IF text.kind = "host" THEN {text.addr}
    ELSE IF text.kind = "cidr" /\ text.len <= AddrBits
    THEN {a \in Addresses : a \div 2^(AddrBits - text.len)
                              = text.addr \div 2^(AddrBits - text.len)}
    ELSE {}

IsAddressOrRange(text) == AddrSet(text) # {}

HasRequired(rule) == RequiredKeys \subseteq rule.keys

Named(log, kinds, k) ==
    {x \in DOMAIN log : log[x].kind \in kinds /\ (log[x].a = k \/ log[x].b = k)}

Times(log, finding) == Cardinality({x \in DOMAIN log : log[x] = finding})

\* C9: for address texts s1, s2 that are each a single address or a CIDR
\* range, check_overlap(s1, d1, s2, d2) returns true exactly when the address
\* sets of s1 and s2 intersect, whatever d1 and d2 are.
C9_OverlapPrimitive ==
    (Done("check_overlap") /\ IsAddressOrRange(args[1]) /\ IsAddressOrRange(args[3]))
        => /\ ret.exc = "none"
           /\ ret.val = (AddrSet(args[1]) \cap AddrSet(args[3]) # {})
           /\ \A d1, d2 \in RuleDests :
                  check_overlap(args[1], d1, args[3], d2) = ret

\* C2: validate_acl_rules returns a boolean verdict and never raises, for
\* every rule set and role.
C2_Totality ==
    Done("validate_acl_rules") => (ret.exc = "none" /\ ret.val \in BOOLEAN)

TuplesDisjoint(ri, rj) ==
    \/ ri.protocol # rj.protocol
    \/ AddrSet(ri.source) \cap AddrSet(rj.source) = {}
    \/ AddrSet(ri.destination) \cap AddrSet(rj.destination) = {}

Clean(rs) ==
    /\ \A k \in DOMAIN rs : HasRequired(rs[k])
    /\ \A i, j \in DOMAIN rs :
           i < j => (rs[i].acl_number # rs[j].acl_number /\ TuplesDisjoint(rs[i], rs[j]))

\* C3: a rule set whose rules hold all required fields, have distinct
\* acl_number values and pairwise disjoint (protocol, source, destination)
\* tuples gets verdict true and no finding, for every role.
C3_CleanPasses ==
    (Done("validate_acl_rules") /\ Clean(rules))
        => (ret.exc = "none" /\ ret.val /\ ret.log = << >>)

CarriedBefore(rs, k) ==
    \E m \in 1 .. (k - 1) :
        "acl_number" \in rs[m].keys /\ rs[m].acl_number = rs[k].acl_number

\* C4: the first rule carrying an acl_number never gets a duplicate-acl
\* finding; every later rule carrying it gets exactly one, and the verdict is
\* false.
C4_Duplicates ==
    Done("validate_acl_rules")
        => \A k \in DOMAIN rules :
               "acl_number" \in rules[k].keys
                   => IF CarriedBefore(rules, k)
                      THEN /\ Times(ret.log, Finding("duplicate-acl", k, 0)) = 1
                           /\ ret.exc = "none"
                           /\ ~ret.val
                      ELSE Times(ret.log, Finding("duplicate-acl", k, 0)) = 0

Contradict(permit, deny) ==
    /\ HasRequired(permit) /\ HasRequired(deny)
    /\ permit.action = "permit" /\ deny.action = "deny"
    /\ permit.protocol = deny.protocol
    /\ check_overlap(permit.source, permit.destination,
                     deny.source, deny.destination) = Returned(TRUE)

\* C5: whenever the rule set holds a permit rule and a deny rule, both with
\* all required fields, of equal protocol and overlapping under
\* check_overlap, a permit-deny-conflict finding names the pair and the
\* verdict is false, for every role.
C5_Conflicts ==
    Done("validate_acl_rules")
        => \A p, d \in DOMAIN rules :
               Contradict(rules[p], rules[d])
                   => /\ Times(ret.log, Finding("permit-deny-conflict", p, d)) >= 1
                      /\ ret.exc = "none"
                      /\ ~ret.val

\* C6: a rule without protocol is named by no overlap and no
\* permit-deny-conflict finding; the pairwise scans compare it as a rule whose
\* protocol equals no other (the read of its protocol does not fail), and the
\* one finding it gets is missing-field.
C6_NoProtocol ==
    Done("validate_acl_rules")
        => \A k \in DOMAIN rules :
               "protocol" \notin rules[k].keys
                   => /\ Named(ret.log, {"overlap", "permit-deny-conflict"}, k) = {}
                      /\ Times(ret.log, Finding("missing-field", k, 0)) = 1
                      /\ ret.exc # "KeyError"

Without(log, kind) == SelectSeq(log, LAMBDA f : f.kind # kind)

SameFindings(l1, l2) ==
    \A f \in Range(l1) \cup Range(l2) : Times(l1, f) = Times(l2, f)

\* C7: under role read-only the findings are those under role read-write
\* plus one permission-denied finding per deny rule.
C7_RoleAddsFindings ==
    (Done("validate_acl_rules") /\ current_role = "read-only")
        => LET rw == validate_acl_rules(rules, "read-write")
           IN  /\ SameFindings(Without(ret.log, "permission-denied"), rw.log)
               /\ \A k \in DOMAIN rules :
                      Times(ret.log, Finding("permission-denied", k, 0))
                          = IF HasRequired(rules[k]) /\ rules[k].action = "deny"
                            THEN 1 ELSE 0

=============================================================================
